---------------------------- MODULE Spec2Model ----------------------------
(***************************************************************************)
(* Model of sntools' event generator (channel.py: main, rejection_sample,  *)
(* get_eNu, get_direction) and of the c12e channel's angular cross section.*)
(*                                                                         *)
(* Times and sampled values are Python floats.  A float is modelled as an  *)
(* integer number of units of 2^-PrecisionBits, and every arithmetic       *)
(* operation rounds its exact result to PrecisionBits significant bits,    *)
(* ties to even, as IEEE-754 binary64 does with 53 bits.  random.random()  *)
(* returns a multiple of 2^-PrecisionBits in [0, 1).                       *)
(***************************************************************************)
EXTENDS Integers, Sequences, FiniteSets

\* ------------------------------------------------------------------ bounds
\* significand width of the modelled float (53 in binary64)
PrecisionBits == 3
\* largest total number of events the Poisson draw yields in one run
MaxEvents == 3
\* largest number of time bins of a run
MaxBins == 4
\* largest density value a dist callback returns
MaxDensity == 2
\* largest n_bins passed to rejection_sample when only the two passes run
MaxCells == 21
\* largest n_bins passed to rejection_sample when the accept loop runs too
MaxSampleCells == 2

\* ------------------------------------------------------- float arithmetic
Pow2[k \in Nat] == IF k = 0 THEN 1 ELSE 2 * Pow2[k - 1]

\* 1.0 in units
One == Pow2[PrecisionBits]

\* 0.5 in units
Half == One \div 2

\* least e >= e0 with num/den < 2^(PrecisionBits + e)
Exponent[num \in Nat, den \in Nat, e0 \in Nat] ==
    IF num < den * Pow2[PrecisionBits + e0] THEN e0
    ELSE Exponent[num, den, e0 + 1]

\* num/den units rounded to a multiple of 2^e units, ties to even
RoundAt[num \in Nat, den \in Nat, e \in Nat] ==
    LET s == den * Pow2[e]
        q == num \div s
        r2 == 2 * (num % s)
    IN  IF r2 > s \/ (r2 = s /\ q % 2 = 1) THEN (q + 1) * Pow2[e] ELSE q * Pow2[e]

\* the float nearest to num/den units (num >= 0, den > 0), ties to even
RoundRat[num \in Nat, den \in Nat] == RoundAt[num, den, Exponent[num, den, 0]]

Abs(x) == IF x < 0 THEN -x ELSE x

Sign(x) == IF x < 0 THEN -1 ELSE 1

RoundInt[x \in Int] == Sign(x) * RoundRat[Abs(x), 1]

Round(x) == RoundInt[x]

FAdd(a, b) == RoundInt[a + b]

FSub(a, b) == RoundInt[a - b]

Product[a \in Int, b \in Int] ==
    Sign(a) * Sign(b) * RoundRat[Abs(a) * Abs(b), One]

FMul(a, b) == Product[a, b]

Quotient[a \in Int, b \in Int] ==
    Sign(a) * Sign(b) * RoundRat[Abs(a) * One, Abs(b)]

FDiv(a, b) == Quotient[a, b]

\* float(i) for a Python int i
IntToFloat(i) == RoundInt[i * One]

\* int(x) for a float x: truncation towards zero
Truncated[x \in Int] == Sign(x) * (Abs(x) \div One)

Trunc(x) == Truncated[x]

\* the values random.random() can return: 0, 0.5 and the largest float below 1
Draws == {0, Half, One - 1}

\* ------------------------------------------------------------- main: data
VARIABLES pc, channel, detector, starttime, endtime, duration, parsed,
          integrated, n_bins, binned_t, binned_nevt, prepCalls, prepArg,
          outOpen, out, i, k, t, eNuArgs, reported

VARIABLES rs_pc, min_val, max_val, rs_n_bins, dist, distc, p_max, j_max,
          rs_j, evaluated, val, u

mainVars == <<pc, channel, detector, starttime, endtime, duration, parsed,
              integrated, n_bins, binned_t, binned_nevt, prepCalls, prepArg,
              outOpen, out, i, k, t, eNuArgs, reported>>

rsVars == <<rs_pc, min_val, max_val, rs_n_bins, dist, distc, p_max, j_max,
            rs_j, evaluated, val, u>>

vars == <<mainVars, rsVars>>

\* bin width in ms
bin_width == 1

\* the detector table's names
detectors == {"SuperK", "HyperK"}

\* the channel modules import_module can resolve
KnownChannels == {"c12e"}

ChannelNames == {"c12e", "nosuch"}

DetectorNames == {"SuperK", "Unknown"}

RECURSIVE SumTo(_, _)
SumTo(f, n) == IF n = 0 THEN 0 ELSE f[n - 1] + SumTo(f, n - 1)

\* sum(binned_nevt)
Total(f, n) == SumTo(f, IF n < 0 THEN 0 ELSE n)

\* range(n)
Range(n) == 0 .. (n - 1)

\* the (starttime, endtime) windows parse_input returns: representable
\* floats with starttime <= endtime
Times ==
    { Round(x) : x \in { 0, 6, One, 2 * One + Half, 3 * One, 3 * One + 4,
                         Pow2[PrecisionBits - 1] * One - Half,
                         (Pow2[PrecisionBits - 1] + 4) * One } }

NBinsOf(d) == Trunc(FDiv(d, IntToFloat(bin_width)))

Windows ==
    { w \in Times \X Times :
        w[1] <= w[2] /\ NBinsOf(FSub(w[2], w[1])) <= MaxBins }

\* the vectors np.random.poisson can return for n bins
CountVectors(n) ==
    { v \in [Range(n) -> 0 .. MaxEvents] : Total(v, n) <= MaxEvents }

BinCentre(j) ==
    FAdd(starttime, FMul(FAdd(IntToFloat(j), Half), IntToFloat(bin_width)))

BoundsMin(j) == FAdd(starttime, IntToFloat(j * bin_width))

BoundsMax(j) == FAdd(starttime, IntToFloat((j + 1) * bin_width))

EventTime(j, r) == FAdd(BoundsMin(j), FMul(r, IntToFloat(bin_width)))

\* the time get_eNu is called with for an event of bin j drawn at time tt
ENuTimeAlt(j, tt) == tt
ENuTime(j, tt) == binned_t[j + 1]

\* the inner loop's range(binned_nevt[i]) is exhausted
BinDoneAlt == k + 1 >= binned_nevt[i]
BinDone == k >= binned_nevt[i]

\* detectors[detector] finds an entry
DetectorKnownAlt == TRUE
DetectorKnown == detector \in detectors

RSIdle ==
    /\ rs_pc = "idle" /\ min_val = 0 /\ max_val = 0 /\ rs_n_bins = 0
    /\ dist = <<>> /\ distc = <<>> /\ p_max = 0 /\ j_max = 0 /\ rs_j = 0
    /\ evaluated = {} /\ val = 0 /\ u = 0

Init ==
    /\ pc = "start"
    /\ channel \in ChannelNames
    /\ detector \in DetectorNames
    /\ starttime = 0 /\ endtime = 0 /\ duration = 0
    /\ parsed = FALSE /\ integrated = FALSE
    /\ n_bins = 0 /\ binned_t = <<>> /\ binned_nevt = <<>>
    /\ prepCalls = 0 /\ prepArg = <<>>
    /\ outOpen = FALSE /\ out = <<>>
    /\ i = 0 /\ k = 0 /\ t = 0 /\ eNuArgs = {} /\ reported = -1
    /\ RSIdle

\* ---------------------------------------------------------- main: actions
ImportModules ==
    /\ pc = "start"
    /\ pc' = IF channel \in KnownChannels THEN "imported" ELSE "error"
    /\ UNCHANGED <<channel, detector, starttime, endtime, duration, parsed,
                   integrated, n_bins, binned_t, binned_nevt, prepCalls,
                   prepArg, outOpen, out, i, k, t, eNuArgs, reported, rsVars>>

ParseInput ==
    /\ pc = "imported"
    /\ \E w \in Windows :
         /\ starttime' = w[1]
         /\ endtime' = w[2]
         /\ duration' = FSub(w[2], w[1])
    /\ parsed' = TRUE
    /\ pc' = "parsed"
    /\ UNCHANGED <<channel, detector, integrated, n_bins, binned_t,
                   binned_nevt, prepCalls, prepArg, outOpen, out, i, k, t,
                   eNuArgs, reported, rsVars>>

LookupDetector ==
    /\ pc = "parsed"
    /\ pc' = IF DetectorKnown THEN "targets" ELSE "error"
    /\ UNCHANGED <<channel, detector, starttime, endtime, duration, parsed,
                   integrated, n_bins, binned_t, binned_nevt, prepCalls,
                   prepArg, outOpen, out, i, k, t, eNuArgs, reported, rsVars>>

IntegrateRates ==
    /\ pc = "targets"
    /\ integrated' = TRUE
    /\ pc' = "rates"
    /\ UNCHANGED <<channel, detector, starttime, endtime, duration, parsed,
                   n_bins, binned_t, binned_nevt, prepCalls, prepArg, outOpen,
                   out, i, k, t, eNuArgs, reported, rsVars>>

BinSample ==
    /\ pc = "rates"
    /\ n_bins' = NBinsOf(duration)
    /\ binned_t' = [j \in 1 .. n_bins' |-> BinCentre(j - 1)]
    /\ binned_nevt' \in CountVectors(n_bins')
    /\ pc' = "binned"
    /\ UNCHANGED <<channel, detector, starttime, endtime, duration, parsed,
                   integrated, prepCalls, prepArg, outOpen, out, i, k, t,
                   eNuArgs, reported, rsVars>>

PrepareEvtGen ==
    /\ pc = "binned"
    /\ prepCalls' = prepCalls + 1
    /\ prepArg' = binned_t
    /\ pc' = "prepared"
    /\ UNCHANGED <<channel, detector, starttime, endtime, duration, parsed,
                   integrated, n_bins, binned_t, binned_nevt, outOpen, out, i,
                   k, t, eNuArgs, reported, rsVars>>

OpenOutput ==
    /\ pc = "prepared"
    /\ outOpen' = TRUE
    /\ i' = 0
    /\ k' = 0
    /\ pc' = "bins"
    /\ UNCHANGED <<channel, detector, starttime, endtime, duration, parsed,
                   integrated, n_bins, binned_t, binned_nevt, prepCalls,
                   prepArg, out, t, eNuArgs, reported, rsVars>>

\* t is drawn and get_eNu is entered
BeginEvent ==
    /\ pc = "bins"
    /\ i < n_bins
    /\ ~BinDone
    /\ \E r \in Draws : t' = EventTime(i, r)
    /\ eNuArgs' = eNuArgs \cup {ENuTime(i, t')}
    /\ pc' = "event"
    /\ UNCHANGED <<channel, detector, starttime, endtime, duration, parsed,
                   integrated, n_bins, binned_t, binned_nevt, prepCalls,
                   prepArg, outOpen, out, i, k, reported, rsVars>>

\* get_eNu, get_direction and get_eE have returned; the record is written
WriteEvent ==
    /\ pc = "event"
    /\ out' = Append(out, [bin |-> i, time |-> t])
    /\ k' = k + 1
    /\ pc' = "bins"
    /\ UNCHANGED <<channel, detector, starttime, endtime, duration, parsed,
                   integrated, n_bins, binned_t, binned_nevt, prepCalls,
                   prepArg, outOpen, i, t, eNuArgs, reported, rsVars>>

NextBin ==
    /\ pc = "bins"
    /\ i < n_bins
    /\ BinDone
    /\ i' = i + 1
    /\ k' = 0
    /\ UNCHANGED <<pc, channel, detector, starttime, endtime, duration,
                   parsed, integrated, n_bins, binned_t, binned_nevt,
                   prepCalls, prepArg, outOpen, out, t, eNuArgs, reported,
                   rsVars>>

Finish ==
    /\ pc = "bins"
    /\ i >= n_bins
    /\ outOpen' = FALSE
    /\ reported' = Total(binned_nevt, n_bins)
    /\ pc' = "done"
    /\ UNCHANGED <<channel, detector, starttime, endtime, duration, parsed,
                   integrated, n_bins, binned_t, binned_nevt, prepCalls,
                   prepArg, out, i, k, t, eNuArgs, rsVars>>

Next ==
    \/ ImportModules
    \/ ParseInput
    \/ LookupDetector
    \/ IntegrateRates
    \/ BinSample
    \/ PrepareEvtGen
    \/ OpenOutput
    \/ BeginEvent
    \/ WriteEvent
    \/ NextBin
    \/ Finish

Spec == Init /\ [][Next]_vars

\* ------------------------------------------------- rejection_sample: data
\* stride of the coarse pass, range(0, n_bins, 10)
CoarseStride == 10

\* n_bins get_direction passes to rejection_sample
DirectionCells == 200

Max(a, b) == IF a >= b THEN a ELSE b

Min(a, b) == IF a <= b THEN a ELSE b

\* p > p_max, the test that updates the running maximum
BetterAlt(p, pm) == p >= pm
Better(p, pm) == p > pm

\* the fine pass is range(max(j_max-9, 0), min(j_max+10, n_bins))
FineLoAlt(jm) == Max(jm - 8, 0)
FineLo(jm) == Max(jm - 9, 0)

FineHi(jm, n) == Min(jm + 10, n)

\* bin_width = float(max_val - min_val) / n_bins
CellWidth(mn, mx, n) == FDiv(FSub(mx, mn), IntToFloat(n))

\* min_val + bin_width * (j + 0.5)
CentreOf(mn, mx, n, j) ==
    FAdd(mn, FMul(CellWidth(mn, mx, n), FAdd(IntToFloat(j), Half)))

\* min_val + (max_val - min_val) * random.random()
SampleValue(mn, mx, r) == FAdd(mn, FMul(FSub(mx, mn), r))

\* p_max * random.random() < dist(val); densities are small integers, so the
\* product is exact
AcceptsLe(pm, uu, d) == pm * uu <= d * One
AcceptsAlways(pm, uu, d) == TRUE
Accepts(pm, uu, d) == pm * uu < d * One

\* the floats of [mn, mx]
Grid(mn, mx) == { x \in mn .. mx : Round(x) = x }

\* c12e.dSigma_dCosT, in units of 0.5 (the energy does not matter)
dSigma_dCosT(eNu, cosT) == IF Abs(cosT) > One THEN 0 ELSE 1

\* the densities a caller passes: a background b with one point of height h
DistFamily(mn, mx) ==
    { [x \in Grid(mn, mx) |-> IF x = q THEN h ELSE b] :
        q \in Grid(mn, mx), b \in 0 .. 1, h \in 0 .. MaxDensity }

\* the (min_val, max_val) intervals of the calls
Intervals ==
    { <<-One, One>>, <<One, 2 * One>>, <<0, One>>, <<-3, 5>>,
      <<5, 2 * One + Half>> }

\* the calls rejection_sample(dist, min_val, max_val, n_bins) over interval w
CallsOf(w) ==
    { [mn |-> w[1], mx |-> w[2], n |-> n, d |-> d] :
        n \in 1 .. MaxSampleCells, d \in DistFamily(w[1], w[2]) }

\* get_direction's call: rejection_sample(dist, -1, 1, 200) with the channel's
\* angular cross section.  With PrecisionBits this small the 200 cell centres
\* are not all distinct floats; the cross section is constant over [-1, 1],
\* so the densities found at the centres are those of the code.
DirectionCall ==
    [mn |-> -One, mx |-> One, n |-> DirectionCells,
     d |-> [x \in Grid(-One, One) |-> dSigma_dCosT(0, x)]]

\* densities given at the cell centres only: two cells of any height
SparseCentres(n) ==
    { [j \in Range(n) |-> IF j = a THEN ha ELSE IF j = b THEN hb ELSE 0] :
        a \in Range(n), b \in Range(n), ha \in 0 .. MaxDensity,
        hb \in 1 .. MaxDensity }

\* densities at the cell centres with a single peak: slope a up to cell pk,
\* slope b down after it; the lowest end is 0 or positive
UnimodalCentres(n) ==
    { [j \in Range(n) |->
          IF j <= c[1] THEN c[4] + Max(c[2] * c[1], c[3] * (n - 1 - c[1]))
                            - c[2] * (c[1] - j)
          ELSE c[4] + Max(c[2] * c[1], c[3] * (n - 1 - c[1]))
               - c[3] * (j - c[1])] :
        c \in Range(n) \X {1, CoarseStride} \X {1, CoarseStride} \X {0, 1} }

MainIdle ==
    /\ pc = "idle" /\ channel = "c12e" /\ detector = "SuperK"
    /\ starttime = 0 /\ endtime = 0 /\ duration = 0
    /\ parsed = FALSE /\ integrated = FALSE
    /\ n_bins = 0 /\ binned_t = <<>> /\ binned_nevt = <<>>
    /\ prepCalls = 0 /\ prepArg = <<>>
    /\ outOpen = FALSE /\ out = <<>>
    /\ i = 0 /\ k = 0 /\ t = 0 /\ eNuArgs = {} /\ reported = -1

\* rejection_sample entered with the accept loop to follow
InitRS ==
    /\ MainIdle
    /\ \E c \in UNION { CallsOf(w) : w \in Intervals } \cup {DirectionCall} :
         /\ min_val = c.mn
         /\ max_val = c.mx
         /\ rs_n_bins = c.n
         /\ dist = c.d
         /\ distc = [j \in Range(c.n) |-> c.d[CentreOf(c.mn, c.mx, c.n, j)]]
    /\ rs_pc = "coarse"
    /\ p_max = 0 /\ j_max = 0 /\ rs_j = 0 /\ evaluated = {}
    /\ val = 0 /\ u = 0

\* rejection_sample entered, observed up to the end of the two passes
InitPMax ==
    /\ MainIdle
    /\ min_val = 0 /\ max_val = 0 /\ dist = <<>>
    /\ rs_n_bins \in 1 .. MaxCells
    /\ distc \in SparseCentres(rs_n_bins) \cup UnimodalCentres(rs_n_bins)
    /\ rs_pc = "coarse"
    /\ p_max = 0 /\ j_max = 0 /\ rs_j = 0 /\ evaluated = {}
    /\ val = 0 /\ u = 0

\* ---------------------------------------------- rejection_sample: actions
CoarseStep ==
    /\ rs_pc = "coarse"
    /\ rs_j < rs_n_bins
    /\ evaluated' = evaluated \cup {rs_j}
    /\ IF Better(distc[rs_j], p_max)
         THEN p_max' = distc[rs_j] /\ j_max' = rs_j
         ELSE UNCHANGED <<p_max, j_max>>
    /\ rs_j' = rs_j + CoarseStride
    /\ UNCHANGED <<mainVars, rs_pc, min_val, max_val, rs_n_bins, dist, distc,
                   val, u>>

CoarseDone ==
    /\ rs_pc = "coarse"
    /\ rs_j >= rs_n_bins
    /\ rs_pc' = "fine"
    /\ rs_j' = FineLo(j_max)
    /\ UNCHANGED <<mainVars, min_val, max_val, rs_n_bins, dist, distc, p_max,
                   j_max, evaluated, val, u>>

FineStep ==
    /\ rs_pc = "fine"
    /\ rs_j < FineHi(j_max, rs_n_bins)
    /\ evaluated' = evaluated \cup {rs_j}
    /\ p_max' = IF Better(distc[rs_j], p_max) THEN distc[rs_j] ELSE p_max
    /\ rs_j' = rs_j + 1
    /\ UNCHANGED <<mainVars, rs_pc, min_val, max_val, rs_n_bins, dist, distc,
                   j_max, val, u>>

FineDone ==
    /\ rs_pc = "fine"
    /\ rs_j >= FineHi(j_max, rs_n_bins)
    /\ rs_pc' = "loop"
    /\ UNCHANGED <<mainVars, min_val, max_val, rs_n_bins, dist, distc, p_max,
                   j_max, rs_j, evaluated, val, u>>

\* one iteration of the while True loop
Draw ==
    /\ rs_pc = "loop"
    /\ \E r \in Draws, uu \in Draws :
         /\ val' = SampleValue(min_val, max_val, r)
         /\ u' = uu
         /\ rs_pc' = IF Accepts(p_max, uu, dist[val']) THEN "returned" ELSE "loop"
    /\ UNCHANGED <<mainVars, min_val, max_val, rs_n_bins, dist, distc, p_max,
                   j_max, rs_j, evaluated>>

NextPMax == CoarseStep \/ CoarseDone \/ FineStep \/ FineDone

NextRS == CoarseStep \/ CoarseDone \/ FineStep \/ FineDone \/ Draw

SpecPMax == InitPMax /\ [][NextPMax]_vars

SpecRS == InitRS /\ [][NextRS]_vars

\* the random draws are fair: an accepting draw that stays possible is
\* eventually made, and the passes run to their end
FairSpecRS ==
    /\ InitRS
    /\ [][NextRS]_vars
    /\ WF_vars(CoarseStep \/ CoarseDone \/ FineStep \/ FineDone)
    /\ WF_vars(Draw /\ rs_pc' = "returned")

\* ------------------------------------------------------------ main: claims
\* the records written so far for bin j
RecordsOf(j) == { p \in 1 .. Len(out) : out[p].bin = j }

AfterBinning == pc \in {"binned", "prepared", "bins", "event", "done"}

BadConfiguration == channel \notin KnownChannels \/ detector \notin detectors

\* C1: in a completed run exactly binned_nevt[j] records are written for
\* every bin j, so the number of lines written equals the sum of the sampled
\* counts, which is the total reported at the end; no bin ever has more
\* records than its sampled count.
C1_LinesEqualCounts ==
    /\ AfterBinning =>
         \A j \in Range(n_bins) : Cardinality(RecordsOf(j)) <= binned_nevt[j]
    /\ pc = "done" =>
         /\ \A j \in Range(n_bins) : Cardinality(RecordsOf(j)) = binned_nevt[j]
         /\ Len(out) = Total(binned_nevt, n_bins)
         /\ reported = Len(out)

C1_Witness ==
    /\ pc = "done"
    /\ n_bins >= 2
    /\ Len(out) >= 2
    /\ \E j \in Range(n_bins) : binned_nevt[j] = 0

\* C2: the time of every written event lies in the half-open interval of
\* the bin that produced it: boundsMin <= t < boundsMax.
C2_TimeInBin ==
    \A p \in 1 .. Len(out) :
        /\ BoundsMin(out[p].bin) <= out[p].time
        /\ out[p].time < BoundsMax(out[p].bin)

\* C3: n_bins is the floor of (endtime - starttime) / bin_width and every
\* bin [boundsMin, boundsMax) lies inside [starttime, endtime].
C3_BinsInsideWindow ==
    AfterBinning =>
        /\ n_bins = (endtime - starttime) \div (bin_width * One)
        /\ \A j \in Range(n_bins) :
               starttime <= BoundsMin(j) /\ BoundsMax(j) <= endtime

\* C4: records are written in bin order, and an event of an earlier bin
\* never has a later time than an event of a later bin.
C4_OrderedAcrossBins ==
    \A a, b \in 1 .. Len(out) :
        a < b =>
            /\ out[a].bin <= out[b].bin
            /\ out[a].bin < out[b].bin => out[a].time <= out[b].time

\* C5: prepare_evt_gen is called at most once, and exactly once before the
\* first get_eNu call and the first record, with the list of the n_bins
\* bin-centre times; every time passed to get_eNu is a member of that list.
C5_PrepareBeforeEvents ==
    /\ prepCalls <= 1
    /\ (eNuArgs # {} \/ out # <<>> \/ outOpen \/ pc = "done") => prepCalls = 1
    /\ prepCalls = 1 =>
         /\ Len(prepArg) = n_bins
         /\ \A j \in 1 .. n_bins : prepArg[j] = BinCentre(j - 1)
    /\ eNuArgs \subseteq { prepArg[j] : j \in DOMAIN prepArg }

C5_Witness ==
    /\ prepCalls = 1
    /\ Len(prepArg) >= 2
    /\ Cardinality(eNuArgs) >= 2
    /\ Len(out) >= 2

\* C6 as stated: with an unknown detector or channel the input is never
\* parsed, no rate is integrated, the output is never opened and nothing is
\* written.
C6_FailsBeforeParsing ==
    BadConfiguration =>
        ~parsed /\ ~integrated /\ ~outOpen /\ out = <<>>

\* C6 as amended: with an unknown detector or channel no rate is integrated,
\* prepare_evt_gen is not called, the output is never opened and nothing is
\* written; with an unknown channel the input is not parsed either, while an
\* unknown detector is detected only after parse_input has run.
C6_FailsBeforeIntegration ==
    BadConfiguration =>
        /\ ~integrated /\ prepCalls = 0 /\ ~outOpen /\ out = <<>>
        /\ pc \in {"start", "imported", "parsed", "error"}
        /\ channel \notin KnownChannels => ~parsed /\ pc \in {"start", "error"}

C6_Witness ==
    /\ pc = "error"
    /\ channel \in KnownChannels
    /\ detector \notin detectors
    /\ parsed

\* ------------------------------------------------ rejection_sample: claims
\* a maximum of a finite non-empty set of numbers
MaxOver(S) == CHOOSE m \in S : \A x \in S : x <= m

CoarseCells == { j \in Range(rs_n_bins) : j % 10 = 0 }

\* the first coarse cell attaining the coarse maximum, 0 when none is positive
CoarseArgmax ==
    LET cm == MaxOver({0} \cup { distc[c] : c \in CoarseCells })
    IN  IF cm = 0 THEN 0
        ELSE CHOOSE c \in CoarseCells :
                 /\ distc[c] = cm
                 /\ \A c2 \in CoarseCells : c2 < c => distc[c2] < cm

FineCells(jm) ==
    { j \in Range(rs_n_bins) : jm - 9 <= j /\ j < jm + 10 }

PassesDone == rs_pc \in {"loop", "returned"}

\* the densities at the cell centres rise strictly to one peak cell and fall
\* strictly after it
StrictlyUnimodal ==
    \E pk \in Range(rs_n_bins) :
        \A j \in Range(rs_n_bins - 1) :
            /\ j < pk => distc[j] < distc[j + 1]
            /\ j >= pk => distc[j] > distc[j + 1]

DistZero == \A x \in DOMAIN dist : dist[x] = 0

\* some value a draw can produce has positive density
DrawablePositive ==
    \E r \in Draws : dist[SampleValue(min_val, max_val, r)] > 0

\* C7: after the two passes j_max is the first coarse cell attaining the
\* coarse maximum (0 when no coarse value is positive), the cells evaluated
\* are exactly the coarse cells and the cells within 9 of j_max clamped to
\* [0, n_bins - 1], and p_max is the maximum of 0 and the densities there.
C7_TwoPassMaximum ==
    PassesDone =>
        /\ j_max = CoarseArgmax
        /\ evaluated = CoarseCells \cup FineCells(CoarseArgmax)
        /\ p_max = MaxOver({0} \cup { distc[j] : j \in evaluated })

\* a density with a positive cell that neither pass evaluates, and a tie
\* between coarse cells
C7_Witness ==
    /\ PassesDone
    /\ rs_n_bins = MaxCells
    /\ \E j \in Range(rs_n_bins) : j \notin evaluated /\ distc[j] > p_max
    /\ p_max > 0

\* C9: for a density that is strictly unimodal over the cell centres the
\* estimate p_max is the maximum over all n_bins cell centres.
C9_UnimodalMaximumFound ==
    (PassesDone /\ StrictlyUnimodal) =>
        p_max = MaxOver({ distc[j] : j \in Range(rs_n_bins) })

\* the peak lies between two coarse cells, 9 cells below the coarse maximum
C9_Witness ==
    /\ PassesDone
    /\ StrictlyUnimodal
    /\ j_max >= 10
    /\ distc[j_max - 9] = p_max
    /\ p_max > distc[j_max]

\* C8: with a density that is zero everywhere the call never returns; an
\* iteration of the loop leaves it exactly when its draw satisfies
\* p_max*u < dist(val); and when some drawable value has positive density
\* the call returns eventually, the draws being fair.
C8_NoIterationCap ==
    /\ [](DistZero => rs_pc \in {"coarse", "fine", "loop"})
    /\ [][rs_pc = "loop" =>
            (rs_pc' = "returned" <=> p_max * u' < dist[val'] * One)]_vars
    /\ (DrawablePositive ~> rs_pc = "returned")

\* a draw has been rejected under a zero density
C8_Witness ==
    /\ rs_pc = "loop"
    /\ DistZero
    /\ u = One - 1
    /\ val # 0

\* C10 as stated: a returned value lies in [min_val, max_val) and has
\* positive density.
C10_ValueInHalfOpenRange ==
    (rs_pc = "returned" /\ min_val < max_val) =>
        /\ min_val <= val
        /\ val < max_val
        /\ dist[val] > 0

\* C10 as amended: a returned value lies in [min_val, max_val] and has
\* positive density, whatever p_max was estimated; over get_direction's
\* interval [-1, 1] it is below 1.
C10_ValueInClosedRange ==
    (rs_pc = "returned" /\ min_val < max_val) =>
        /\ min_val <= val
        /\ val <= max_val
        /\ dist[val] > 0
        /\ (min_val = -One /\ max_val = One) => val < max_val

\* a value is accepted although every cell centre had density 0
C10_Witness ==
    /\ rs_pc = "returned"
    /\ p_max = 0
    /\ evaluated = Range(rs_n_bins)
    /\ dist[val] > 0

=============================================================================
